---- MODULE Spec2Model ----
(***************************************************************************)
(* The chainable inspection accessor DataFrameVet of pandas_vet            *)
(* (src/pandas_vet/DataFrameVet.py).  One accessor lives on one dataset;   *)
(* every public method is one action.  What a call leaves behind is kept   *)
(* in the variables: the dataset object, the option registry, the timer,   *)
(* and, for the last call, its arguments, the reference it returned, the   *)
(* error it raised, the lines it printed, the data its condition saw and   *)
(* the export encoders it invoked.                                         *)
(*                                                                         *)
(* Text that the code inspects character by character (option names,      *)
(* file paths) is a sequence of one-character strings; text that is only   *)
(* passed along is a TLA+ string.  A cell of a table is <<>> when it is    *)
(* null and <<v>> when it holds v.                                         *)
(***************************************************************************)
EXTENDS Integers, Sequences, FiniteSets

VARIABLES obj, cfg, timer, last, ret, err, out, seen, enc

vars == <<obj, cfg, timer, last, ret, err, out, seen, enc>>

(***************************************************************************)
(* Bounds of the model.                                                    *)
(***************************************************************************)
\* longest keyword-argument list given to set_format
MaxArgs == 3
\* most rows of a generated table (specification SpecNulls)
MaxRows == 2

(***************************************************************************)
(* Text.                                                                   *)
(***************************************************************************)
StartsWith(s, p) == Len(s) >= Len(p) /\ SubSeq(s, 1, Len(p)) = p

EndsWith(s, p) == Len(s) >= Len(p) /\ SubSeq(s, Len(s) - Len(p) + 1, Len(s)) = p

VetPrefix == <<"v", "e", "t", ".">>

XlsSuffix == <<".", "x", "l", "s">>

XlsxSuffix == <<".", "x", "l", "s", "x">>

CsvSuffix == <<".", "c", "s", "v">>

ParquetSuffix == <<".", "p", "a", "r", "q", "u", "e", "t">>

(***************************************************************************)
(* Tables.  A frame has kind "frame", its column names in order and its    *)
(* rows, each a sequence of cells aligned with the columns.  A series (one *)
(* column selected by name) has kind "series", one column name and rows of *)
(* one cell.  id is the identity of the Python object: two values with the *)
(* same id are the same object.                                            *)
(***************************************************************************)
Null == <<>>

IsNa(cell) == cell = Null

ObjId == 1

\* the reference of a call that returned nothing (it raised)
NoRet == ObjId - 1

Frame(id, cols, rows) == [id |-> id, kind |-> "frame", cols |-> cols, rows |-> rows]

Series(id, name, rows) == [id |-> id, kind |-> "series", cols |-> <<name>>, rows |-> rows]

NoData == [id |-> NoRet, kind |-> "none", cols |-> <<>>, rows |-> <<>>]

Range(s) == {s[i] : i \in 1..Len(s)}

IndexOf(s, x) == CHOOSE i \in 1..Len(s) : s[i] = x

\* the subset selector: absent, one column name, or a list of column names
None == [tag |-> "none", name |-> "", names |-> <<>>]

Col(n) == [tag |-> "name", name |-> n, names |-> <<>>]

Cols(ns) == [tag |-> "list", name |-> "", names |-> ns]

\* Python truthiness of a subset selector: None, "" and [] are falsy
Truthy(subset) ==
  \/ subset.tag = "name" /\ subset.name # ""
  \/ subset.tag = "list" /\ subset.names # <<>>

\* the columns a selector names
Named(subset) ==
  IF subset.tag = "name" THEN {subset.name}
  ELSE IF subset.tag = "list" THEN Range(subset.names) ELSE {}

\* d[subset] of the host engine, for a frame d whose columns include the named ones:
\* a new object, a series for one name and a frame for a list of names
GetItem(d, subset) ==
  IF subset.tag = "name"
  THEN Series(d.id + 1, subset.name,
              [i \in 1..Len(d.rows) |-> <<d.rows[i][IndexOf(d.cols, subset.name)]>>])
  ELSE Frame(d.id + 1, subset.names,
             [i \in 1..Len(d.rows) |->
                [j \in 1..Len(subset.names) |-> d.rows[i][IndexOf(d.cols, subset.names[j])]]])

\* the transform functions a caller passes as fn (the default is the identity)
Transforms == {"identity", "dropna", "head1"}

HasNa(row) == \E j \in 1..Len(row) : IsNa(row[j])

NotHasNa(row) == ~HasNa(row)

Min(a, b) == IF a <= b THEN a ELSE b

Max(a, b) == IF a >= b THEN a ELSE b

\* d.head(n) and d.tail(n) of the host engine: new objects
HeadOf(d, n) == [d EXCEPT !.id = @ + 1, !.rows = SubSeq(d.rows, 1, Min(n, Len(d.rows)))]

TailOf(d, n) ==
  [d EXCEPT !.id = @ + 1,
            !.rows = SubSeq(d.rows, Max(1, Len(d.rows) - n + 1), Len(d.rows))]

\* fn(d): lambda df: df returns its argument, the others build a new object
Apply(fn, d) ==
  CASE fn = "identity" -> d
    [] fn = "dropna"   -> [d EXCEPT !.id = @ + 1, !.rows = SelectSeq(d.rows, NotHasNa)]
    [] fn = "head1"    -> HeadOf(d, 1)

(***************************************************************************)
(* Errors and printed lines.                                               *)
(***************************************************************************)
\* site names the raise statement (or the host call) the error comes from
Error(site, kind, msg) == [site |-> site, kind |-> kind, msg |-> msg]

NoErr == Error("none", "none", <<>>)

Raised(e) == e.site # "none"

KeyErr(subset, d) == Error("subset_lookup", "KeyError", <<Named(subset) \ Range(d.cols)>>)

Line(label, body) == [label |-> label, body |-> body]

\* what a call leaves behind: the dataset object, the option registry, the returned
\* reference (NoRet when it raised), the error, the printed lines, the data handed
\* to the condition and the encoder invocations
Outcome(o, c, r, e, p, s, w) ==
  [obj |-> o, cfg |-> c, ret |-> r, err |-> e, out |-> p, seen |-> s, enc |-> w]

\* return self._obj
Returns(o, c, p) == Outcome(o, c, o.id, NoErr, p, NoData, <<>>)

Raises(o, c, e, p) == Outcome(o, c, NoRet, e, p, NoData, <<>>)

(***************************************************************************)
(* The option registry (pandas options under "vet.").                      *)
(***************************************************************************)
UseEmojis == VetPrefix \o <<"u", "s", "e", "_", "e", "m", "o", "j", "i", "s">>

Precision == VetPrefix \o <<"p", "r", "e", "c", "i", "s", "i", "o", "n">>

\* pd._config.config._select_options("vet"): the registered option names
SelectOptions(c) == DOMAIN c

\* _initialize_format_options(): every option at its default
InitializeFormatOptions == [k \in {UseEmojis, Precision} |-> IF k = UseEmojis THEN 1 ELSE 2]

\* pd.set_option(k, v)
SetOption(c, k, v) == [c EXCEPT ![k] = v]

\* _filter_emojis(text): the text as displayed under the current configuration
FilterEmojis(text, c) == [text |-> text, emojis |-> c[UseEmojis] # 0]

FormatFailMessage(m, c) == [deco |-> "fail", msg |-> FilterEmojis(m, c)]

FormatSuccessMessage(m, c) == [deco |-> "success", msg |-> FilterEmojis(m, c)]

(***************************************************************************)
(* Arguments.  A call is a record of the method's name and its arguments;  *)
(* Call(op) holds the defaults of the signatures.                          *)
(***************************************************************************)
\* a condition: a callable (pred names what it computes, text is its source), a
\* text expression over df, or a value of another type
Callable(pred, text) == [type |-> "callable", pred |-> pred, text |-> text]

Text(text) == [type |-> "str", pred |-> "", text |-> text]

Other(type) == [type |-> type, pred |-> "", text |-> ""]

DefaultPassMessage == "Assertion passed"

DefaultFailMessage == "Assertion failed"

\* the default of check_name in each signature ("" stands for None and for "")
DefaultCheckName(op) ==
  CASE op = "describe"           -> "Distributions"
    [] op = "columns"            -> "Columns"
    [] op = "dtypes"             -> "Data types"
    [] op = "info"               -> "Info"
    [] op = "memory_usage"       -> "Memory usage"
    [] op = "ncols"              -> "Columns"
    [] op = "nrows"              -> "Rows"
    [] op = "shape"              -> "Shape"
    [] op = "print_time_elapsed" -> "Time elapsed"
    [] OTHER                     -> ""

\* the default of subset in each signature: [] for hist, None elsewhere
DefaultSubset(op) == IF op = "hist" THEN Cols(<<>>) ELSE None

Call(op) ==
  [op |-> op, condition |-> Other("NoneType"), subset |-> DefaultSubset(op),
   exception_class |-> "DataError", pass_message |-> DefaultPassMessage,
   fail_message |-> DefaultFailMessage, raise_exception |-> TRUE, verbose |-> FALSE,
   fn |-> "identity", check_name |-> DefaultCheckName(op), by_column |-> TRUE, n |-> 5,
   max_rows |-> 10, text |-> "", path |-> <<>>, kwargs |-> <<>>]

(***************************************************************************)
(* set_format (lines 16-23)                                                *)
(***************************************************************************)
\* a variant that prefixes every name
QualifyAlways(arg) == VetPrefix \o arg

\* line 18: the fully qualified option name
Qualify(arg) == IF StartsWith(arg, VetPrefix) THEN arg ELSE VetPrefix \o arg

UnknownOption(vet_option, c) ==
  Error("unknown_option", "AttributeError", <<vet_option, SelectOptions(c)>>)

\* the loop of lines 17-22 from the i-th keyword argument on
RECURSIVE SetFormatFrom(_, _, _, _)
SetFormatFrom(o, kwargs, i, c) ==
  IF i > Len(kwargs) THEN Returns(o, c, <<>>)
  ELSE LET vet_option == Qualify(kwargs[i].arg) IN
       IF vet_option \in SelectOptions(c)
       THEN SetFormatFrom(o, kwargs, i + 1, SetOption(c, vet_option, kwargs[i].value))
       ELSE Raises(o, c, UnknownOption(vet_option, c), <<>>)

\* a variant that validates every name before it sets any option
SetFormatAtomic(o, a, c) ==
  LET r == SetFormatFrom(o, a.kwargs, 1, c) IN
  IF Raised(r.err) THEN [r EXCEPT !.cfg = c] ELSE r

SetFormat(o, a, c) == SetFormatFrom(o, a.kwargs, 1, c)

(***************************************************************************)
(* reset_format (lines 25-28)                                              *)
(***************************************************************************)
ResetFormat(o, a, c) == Returns(o, InitializeFormatOptions, <<>>)

(***************************************************************************)
(* assert_data (lines 30-55)                                               *)
(***************************************************************************)
NoNulls(d) == \A i \in 1..Len(d.rows) : ~HasNa(d.rows[i])

\* condition(data) for the callables of the model
CallCondition(pred, d) ==
  CASE pred = "nonempty" -> Len(d.rows) > 0
    [] pred = "is_frame" -> d.kind = "frame"
    [] pred = "no_nulls" -> NoNulls(d)

\* eval(condition, {}, {"df": data}) for the text conditions of the model
EvalCondition(text, df) ==
  CASE text = "len(df) > 0"                 -> Len(df.rows) > 0
    [] text = "df.ndim == 2"                -> df.kind = "frame"
    [] text = "not df.isna().values.any()"  -> NoNulls(df)

\* _lambda_to_string(condition): the source text of the callable
LambdaToString(condition) == condition.text

\* a variant that raises the default error class whatever exception_class is
AssertResultDefaultClass(o, a, c, data, result, condition_str) ==
  LET failed  == IF result THEN <<>>
                 ELSE <<Line(FormatFailMessage(a.fail_message, c), condition_str)>>
      passed  == IF a.verbose
                 THEN <<Line(FormatSuccessMessage(a.pass_message, c), condition_str)>>
                 ELSE <<>>
  IN  IF ~result /\ a.raise_exception
      THEN [Raises(o, c, Error("assert_fail", "DataError",
                               <<a.fail_message, condition_str>>), <<>>)
              EXCEPT !.seen = data]
      ELSE [Returns(o, c, failed \o passed) EXCEPT !.seen = data]

\* lines 48-55, once the condition has given result on data
AssertResult(o, a, c, data, result, condition_str) ==
  LET failed  == IF result THEN <<>>
                 ELSE <<Line(FormatFailMessage(a.fail_message, c), condition_str)>>
      passed  == IF a.verbose
                 THEN <<Line(FormatSuccessMessage(a.pass_message, c), condition_str)>>
                 ELSE <<>>
  IN  IF ~result /\ a.raise_exception
      THEN [Raises(o, c, Error("assert_fail", a.exception_class,
                               <<a.fail_message, condition_str>>), <<>>)
              EXCEPT !.seen = data]
      ELSE [Returns(o, c, failed \o passed) EXCEPT !.seen = data]

\* a variant that returns the data the condition was evaluated on
AssertDataReturnsData(o, a, c) ==
  IF Truthy(a.subset) /\ ~(Named(a.subset) \subseteq Range(o.cols))
  THEN Raises(o, c, KeyErr(a.subset, o), <<>>)
  ELSE LET data == IF Truthy(a.subset) THEN GetItem(o, a.subset) ELSE o
           r    == CASE a.condition.type = "callable" ->
                          AssertResult(o, a, c, data, CallCondition(a.condition.pred, data),
                                       LambdaToString(a.condition))
                     [] a.condition.type = "str" ->
                          AssertResult(o, a, c, data, EvalCondition(a.condition.text, data),
                                       a.condition.text)
                     [] OTHER ->
                          Raises(o, c, Error("type_check", "TypeError", <<a.condition.type>>), <<>>)
       IN  IF Raised(r.err) THEN r ELSE [r EXCEPT !.ret = data.id]

\* a variant that takes a condition of an unsupported type for a failed one
AssertDataNoTypeCheck(o, a, c) ==
  IF Truthy(a.subset) /\ ~(Named(a.subset) \subseteq Range(o.cols))
  THEN Raises(o, c, KeyErr(a.subset, o), <<>>)
  ELSE LET data == IF Truthy(a.subset) THEN GetItem(o, a.subset) ELSE o IN
       CASE a.condition.type = "callable" ->
              AssertResult(o, a, c, data, CallCondition(a.condition.pred, data),
                           LambdaToString(a.condition))
         [] a.condition.type = "str" ->
              AssertResult(o, a, c, data, EvalCondition(a.condition.text, data),
                           a.condition.text)
         [] OTHER ->
              AssertResult(o, a, c, data, FALSE, a.condition.type)

AssertData(o, a, c) ==
  IF Truthy(a.subset) /\ ~(Named(a.subset) \subseteq Range(o.cols))
  THEN Raises(o, c, KeyErr(a.subset, o), <<>>)
  ELSE LET data == IF Truthy(a.subset) THEN GetItem(o, a.subset) ELSE o IN
       CASE a.condition.type = "callable" ->
              AssertResult(o, a, c, data, CallCondition(a.condition.pred, data),
                           LambdaToString(a.condition))
         [] a.condition.type = "str" ->
              AssertResult(o, a, c, data, EvalCondition(a.condition.text, data),
                           a.condition.text)
         [] OTHER ->
              Raises(o, c, Error("type_check", "TypeError", <<a.condition.type>>), <<>>)

(***************************************************************************)
(* Subset/transform resolution and the report dispatcher (run_checks).     *)
(***************************************************************************)
Resolved(d) == [ok |-> TRUE, value |-> d, err |-> NoErr]

Failed(e) == [ok |-> FALSE, value |-> NoData, err |-> e]

\* _modify_data(data, fn, subset): narrow to the subset when one is given, then
\* apply the transform
ModifyData(d, fn, subset) ==
  IF Truthy(subset) /\ ~(Named(subset) \subseteq Range(d.cols))
  THEN Failed(KeyErr(subset, d))
  ELSE Resolved(Apply(fn, IF Truthy(subset) THEN GetItem(d, subset) ELSE d))

\* a result of the host engine that the model does not compute
Host(what, d) == [host |-> what, of |-> d]

Column(d, j) == [i \in 1..Len(d.rows) |-> d.rows[i][j]]

RECURSIVE Dedup(_)
Dedup(s) ==
  IF Len(s) = 0 THEN <<>>
  ELSE LET h == Dedup(SubSeq(s, 1, Len(s) - 1))
       IN  IF s[Len(s)] \in Range(h) THEN h ELSE Append(h, s[Len(s)])

\* d.duplicated().sum(): the rows equal to an earlier row
Duplicated(d) ==
  Cardinality({i \in 1..Len(d.rows) : \E j \in 1..(i - 1) : d.rows[j] = d.rows[i]})

\* s.nunique(): the distinct values of a column, nulls left out
CountUnique(cells) == Cardinality(Range(cells) \ {Null})

\* the check functions of the accessor methods, applied to the resolved data
CheckFn(check, a, d) ==
  CASE check = "describe"     -> Resolved(Host("describe", d))
    [] check = "columns"      ->
         IF d.kind = "frame" THEN Resolved(d.cols)
         ELSE Failed(Error("check_fn", "AttributeError", <<"columns">>))
    [] check = "dtypes"       -> Resolved(Host("dtypes", d))
    [] check = "evaluate"     -> Resolved(d)
    [] check = "head"         -> Resolved(HeadOf(d, a.n))
    [] check = "memory_usage" -> Resolved(Host("memory_usage", d))
    [] check = "ncols"        ->
         IF d.kind = "frame" THEN Resolved(Len(d.cols))
         ELSE Failed(Error("check_fn", "IndexError", <<"shape[1]">>))
    [] check = "ndups"        -> Resolved(Duplicated(d))
    [] check = "nrows"        -> Resolved(Len(d.rows))
    [] check = "nunique"      ->
         IF d.kind = "frame"
         THEN Resolved([j \in 1..Len(d.cols) |-> <<d.cols[j], CountUnique(Column(d, j))>>])
         ELSE Resolved(CountUnique(Column(d, 1)))
    [] check = "print"        -> Resolved(HeadOf(d, a.max_rows))
    [] check = "shape"        ->
         IF d.kind = "frame" THEN Resolved(<<Len(d.rows), Len(d.cols)>>)
         ELSE Resolved(<<Len(d.rows)>>)
    [] check = "tail"         -> Resolved(TailOf(d, a.n))
    [] check = "unique"       ->
         IF d.kind = "series" THEN Resolved(Dedup(Column(d, 1)))
         ELSE Failed(Error("check_fn", "AttributeError", <<"unique">>))
    [] check = "value_counts" ->
         Resolved([head |-> a.max_rows, of |-> Host("value_counts", d)])

\* _check_data(data, check_fn, modify_fn, subset, check_name): resolve, apply the
\* check function, display the result under the label; gives the error and the
\* printed lines
CheckData(d, check, a, c, check_name) ==
  LET m == ModifyData(d, a.fn, a.subset) IN
  IF ~m.ok THEN [err |-> m.err, out |-> <<>>]
  ELSE LET r == CheckFn(check, a, m.value) IN
       IF ~r.ok THEN [err |-> r.err, out |-> <<>>]
       ELSE [err |-> NoErr, out |-> <<Line(FilterEmojis(check_name, c), r.value)>>]

\* an accessor method that is one _check_data call followed by return self._obj
Report(o, a, c, check, check_name) ==
  LET r == CheckData(o, check, a, c, check_name) IN
  IF Raised(r.err) THEN Raises(o, c, r.err, r.out) ELSE Returns(o, c, r.out)

(***************************************************************************)
(* The reporting methods (lines 57-103, 126-154, 176-268).                 *)
(***************************************************************************)
Describe(o, a, c) == Report(o, a, c, "describe", a.check_name)

Columns(o, a, c) == Report(o, a, c, "columns", a.check_name)

Dtypes(o, a, c) == Report(o, a, c, "dtypes", a.check_name)

Evaluate(o, a, c) == Report(o, a, c, "evaluate", a.check_name)

\* check_name if check_name else default
CheckName(a, default) == IF a.check_name # "" THEN a.check_name ELSE default

HeadOp(o, a, c) == Report(o, a, c, "head", CheckName(a, <<"First", a.n, "rows">>))

MemoryUsage(o, a, c) == Report(o, a, c, "memory_usage", a.check_name)

NCols(o, a, c) == Report(o, a, c, "ncols", a.check_name)

NDups(o, a, c) ==
  Report(o, a, c, "ndups",
         CheckName(a, IF Truthy(a.subset) THEN <<"Rows with duplication in", a.subset>>
                      ELSE <<"Duplicated rows">>))

NRows(o, a, c) == Report(o, a, c, "nrows", a.check_name)

NUnique(o, a, c) ==
  Report(o, a, c, "nunique", CheckName(a, <<"Unique values in", a.subset>>))

\* print: with a text, the text goes through _check_data in place of the dataset
\* (a text has no columns to narrow to and none of the table transforms) and is
\* displayed as it is; without, the first max_rows rows of the resolved data
PrintOp(o, a, c) ==
  IF a.text = "" THEN Report(o, a, c, "print", a.check_name)
  ELSE IF Truthy(a.subset)
       THEN Raises(o, c, Error("subset_lookup", "TypeError", <<a.text>>), <<>>)
  ELSE IF a.fn # "identity"
       THEN Raises(o, c, Error("transform", "AttributeError", <<a.fn>>), <<>>)
  ELSE Returns(o, c, <<Line(FilterEmojis(a.check_name, c), a.text)>>)

Shape(o, a, c) == Report(o, a, c, "shape", a.check_name)

TailOp(o, a, c) == Report(o, a, c, "tail", CheckName(a, <<"Last", a.n, "rows">>))

Unique(o, a, c) ==
  Report(o, a, c, "unique", CheckName(a, <<"Unique values of", a.subset>>))

ValueCounts(o, a, c) ==
  Report(o, a, c, "value_counts",
         CheckName(a, IF a.max_rows # 0 THEN <<"Value counts, first", a.max_rows, "values">>
                      ELSE <<"Value counts">>))

(***************************************************************************)
(* hist, info, plot (lines 105-124, 196-209): drawn or printed directly.   *)
(***************************************************************************)
\* line 111: len(subset) is undefined for None
Hist(o, a, c) ==
  LET m == ModifyData(o, a.fn, a.subset) IN
  IF ~m.ok THEN Raises(o, c, m.err, <<>>)
  ELSE LET drawn == Line("hist", Host("hist", m.value)) IN
       IF a.check_name = "" /\ a.subset.tag = "none"
       THEN Raises(o, c, Error("suptitle", "TypeError", <<"len(None)">>), <<drawn>>)
       ELSE LET n == IF a.subset.tag = "name" THEN Len(a.subset.name)
                     ELSE Len(a.subset.names)
                title == IF a.check_name # "" THEN a.check_name
                         ELSE IF n = 1 THEN "Distribution" ELSE "Distributions"
            IN  Returns(o, c, <<drawn, Line("suptitle", title)>>)

Info(o, a, c) ==
  LET head == <<Line("print", ""), Line("print", FilterEmojis(a.check_name, c))>>
      m    == ModifyData(o, a.fn, a.subset)
  IN  IF ~m.ok THEN Raises(o, c, m.err, head)
      ELSE Returns(o, c, Append(head, Line("info", Host("info", m.value))))

Plot(o, a, c) ==
  LET m == ModifyData(o, a.fn, a.subset) IN
  IF ~m.ok THEN Raises(o, c, m.err, <<>>)
  ELSE Returns(o, c, <<Line(FilterEmojis(a.check_name, c), Host("plot", m.value))>>)

(***************************************************************************)
(* nnulls (lines 156-174)                                                  *)
(***************************************************************************)
\* the number of true entries of a sequence of booleans
CountTrue(s) == Cardinality({i \in 1..Len(s) : s[i]})

\* data.isna().sum(): for a frame the nulls of each column, for a series its nulls
IsNaSum(data) ==
  IF data.kind = "frame"
  THEN [j \in 1..Len(data.cols) |->
          <<data.cols[j], CountTrue([i \in 1..Len(data.rows) |-> IsNa(data.rows[i][j])])>>]
  ELSE CountTrue([i \in 1..Len(data.rows) |-> IsNa(data.rows[i][1])])

\* data.isna().any(axis=1).sum(): the rows with a null in some column
IsNaAnySum(data) == CountTrue([i \in 1..Len(data.rows) |-> HasNa(data.rows[i])])

\* a variant that counts by row the rows null in every column
NaCountsAll(data, by_column) ==
  IF data.kind = "frame" /\ ~by_column
  THEN CountTrue([i \in 1..Len(data.rows) |->
                    \A j \in 1..Len(data.rows[i]) : IsNa(data.rows[i][j])])
  ELSE IsNaSum(data)

\* line 163
NaCounts(data, by_column) ==
  IF data.kind = "frame" /\ ~by_column THEN IsNaAnySum(data) ELSE IsNaSum(data)

\* line 165: a per-column result is a pandas object, a count is not
IsPandas(data, by_column) == data.kind = "frame" /\ by_column

NNulls(o, a, c) ==
  LET blank == <<Line("print", "")>>
      m     == ModifyData(o, a.fn, a.subset)
  IN  IF ~m.ok THEN Raises(o, c, m.err, blank)
      ELSE
        LET data      == m.value
            na_counts == NaCounts(data, a.by_column)
            label     == IF Truthy(a.subset) THEN <<"Rows with NaNs in", a.subset>>
                         ELSE <<"Rows with NaNs">>
        IN  IF a.check_name = ""
            THEN IF IsPandas(data, a.by_column)
                 THEN Returns(o, c, Append(blank, Line(FilterEmojis(label, c), na_counts)))
                 ELSE Returns(o, c, Append(blank, Line(FilterEmojis(label, c),
                                                       <<na_counts, "out of", Len(data.rows)>>)))
            ELSE Returns(o, c, Append(blank, Line(FilterEmojis(a.check_name, c), na_counts)))

(***************************************************************************)
(* write (lines 270-282)                                                   *)
(***************************************************************************)
Encoded(encoder, data, path) == [encoder |-> encoder, data |-> data, path |-> path]

\* lines 272-279: the encoder the path's suffix selects, "" when none
Encoder(path) ==
  IF EndsWith(path, XlsSuffix) \/ EndsWith(path, XlsxSuffix) THEN "to_excel"
  ELSE IF EndsWith(path, CsvSuffix) THEN "to_csv"
  ELSE IF EndsWith(path, ParquetSuffix) THEN "to_parquet"
  ELSE ""

\* lines 273, 275, 277: the export methods of the host engine; a frame has all
\* three, a series has to_excel and to_csv and no to_parquet
HasEncoder(data, encoder) == data.kind = "frame" \/ encoder # "to_parquet"

\* a variant that keeps the resolved data as the accessor's dataset
WriteInPlace(o, a, c) ==
  LET m == ModifyData(o, a.fn, a.subset) IN
  IF ~m.ok THEN Raises(o, c, m.err, <<>>)
  ELSE IF Encoder(a.path) = ""
       THEN Raises([m.value EXCEPT !.id = o.id], c,
                   Error("bad_suffix", "AttributeError", <<a.path>>), <<>>)
  ELSE IF ~HasEncoder(m.value, Encoder(a.path))
       THEN Raises([m.value EXCEPT !.id = o.id], c,
                   Error("encoder", "AttributeError", <<Encoder(a.path)>>), <<>>)
       ELSE [Returns([m.value EXCEPT !.id = o.id], c, <<>>)
               EXCEPT !.enc = <<Encoded(Encoder(a.path), m.value, a.path)>>]

Write(o, a, c) ==
  LET m == ModifyData(o, a.fn, a.subset) IN
  IF ~m.ok THEN Raises(o, c, m.err, <<>>)
  ELSE IF Encoder(a.path) = ""
       THEN Raises(o, c, Error("bad_suffix", "AttributeError", <<a.path>>), <<>>)
  ELSE IF ~HasEncoder(m.value, Encoder(a.path))
       THEN Raises(o, c, Error("encoder", "AttributeError", <<Encoder(a.path)>>), <<>>)
       ELSE [Returns(o, c, IF a.verbose
                           THEN <<Line("print", FilterEmojis("Wrote file {path}", c))>>
                           ELSE <<>>)
               EXCEPT !.enc = <<Encoded(Encoder(a.path), m.value, a.path)>>]

(***************************************************************************)
(* The timer (lines 232-234, 246-248).                                     *)
(***************************************************************************)
\* timer.start_timer(verbose): records the instant, says so when verbose
TimerStart(verbose) ==
  [err |-> NoErr, out |-> IF verbose THEN <<Line("print", "Started timer")>> ELSE <<>>]

\* timer.print_time_elapsed(check_name, units): with the timer never started the
\* report either fails or says so
TimerElapsed(check_name, c, t, fails) ==
  IF t = "unset" /\ fails
  THEN [err |-> Error("timer", "AttributeError", <<"not started">>), out |-> <<>>]
  ELSE [err |-> NoErr, out |-> <<Line(FilterEmojis(check_name, c), Host("elapsed", t))>>]

StartTimer(o, a, c) == Returns(o, c, TimerStart(a.verbose).out)

PrintTimeElapsed(o, a, c, t, fails) ==
  LET r == TimerElapsed(a.check_name, c, t, fails) IN
  IF Raised(r.err) THEN Raises(o, c, r.err, r.out) ELSE Returns(o, c, r.out)

(***************************************************************************)
(* The datasets and the arguments the calls are made with.                 *)
(***************************************************************************)
One == <<1>>

Two == <<2>>

ExampleTable == Frame(ObjId, <<"a", "b">>, << <<One, Null>>, <<Two, Two>> >>)

Datasets ==
  { ExampleTable,
    Frame(ObjId, <<"a", "b">>, <<>>),
    Frame(ObjId, <<"a", "b">>, << <<One, One>>, <<One, One>>, <<Two, Two>> >>),
    Frame(ObjId, <<"", "a">>, << <<Null, One>> >>) }

\* subset selectors: absent, truthy, falsy ("" and []), naming a missing column
Subsets ==
  { None, Col("a"), Col(""), Col("z"), Cols(<<>>), Cols(<<"b", "a">>) }

SomeSubsets == { None, Col("a"), Cols(<<"b", "a">>), Col("z") }

SomeTransforms == {"identity", "dropna"}

Conditions ==
  { Callable("nonempty", "lambda d: len(d) > 0"),
    Callable("no_nulls", "lambda d: not d.isna().values.any()"),
    Text("len(df) > 0"), Text("df.ndim == 2"),
    Other("int"), Other("NoneType") }

SomeConditions ==
  { Callable("nonempty", "lambda d: len(d) > 0"), Text("df.ndim == 2"), Other("int") }

ExceptionClasses == {"DataError", "ValueError"}

OptionValues == {0, 1}

Bare(name) == SubSeq(name, Len(VetPrefix) + 1, Len(name))

ArgNames ==
  { Precision, Bare(Precision), Bare(UseEmojis), <<"c", "o", "l", "o", "r">> }

\* keyword arguments: at most MaxArgs of them, no name twice, in call order
RECURSIVE KwargsOfLen(_)
KwargsOfLen(n) ==
  IF n = 0 THEN {<<>>}
  ELSE {Append(k, [arg |-> x, value |-> v]) :
          k \in KwargsOfLen(n - 1), x \in ArgNames, v \in OptionValues}

DistinctArgs(k) == \A i, j \in 1..Len(k) : i # j => k[i].arg # k[j].arg

Kwargs == UNION {{k \in KwargsOfLen(n) : DistinctArgs(k)} : n \in 0..MaxArgs}

\* the option registries set_format and reset_format can leave behind
Configs ==
  { c \in [DOMAIN InitializeFormatOptions -> OptionValues \cup {1, 2}] :
      \A k \in DOMAIN c : c[k] \in OptionValues \cup {InitializeFormatOptions[k]} }

Paths ==
  { <<"f">> \o CsvSuffix, <<"f">> \o XlsSuffix, <<"f">> \o XlsxSuffix,
    <<"f">> \o ParquetSuffix, <<"f", ".", "x", "y", "z">>,
    <<"f">> \o CsvSuffix \o <<".", "g", "z">>, <<"c", "s", "v">> }

SomePaths == { <<"f">> \o CsvSuffix, <<"f">> \o XlsxSuffix, <<"f", ".", "x", "y", "z">> }

\* the generated tables: columns a and b, at most MaxRows rows
Cells == {Null, One, Two}

RECURSIVE RowsOfLen(_)
RowsOfLen(n) ==
  IF n = 0 THEN {<<>>}
  ELSE {Append(r, <<x, y>>) : r \in RowsOfLen(n - 1), x \in Cells, y \in Cells}

Tables == {Frame(ObjId, <<"a", "b">>, r) : r \in UNION {RowsOfLen(n) : n \in 0..MaxRows}}

(***************************************************************************)
(* The state machine: Init is the accessor just created on a dataset, and  *)
(* each action is one call of a method.                                    *)
(***************************************************************************)
Init ==
  /\ obj \in Datasets
  /\ cfg = InitializeFormatOptions
  /\ timer = "unset"
  /\ last = Call("__init__")
  /\ ret = NoRet
  /\ err = NoErr
  /\ out = <<>>
  /\ seen = NoData
  /\ enc = <<>>

\* the call a with outcome r, leaving the timer at t
Do(a, r, t) ==
  /\ last' = a
  /\ obj' = r.obj
  /\ cfg' = r.cfg
  /\ ret' = r.ret
  /\ err' = r.err
  /\ out' = r.out
  /\ seen' = r.seen
  /\ enc' = r.enc
  /\ timer' = t

WithData(op, s, f) == [Call(op) EXCEPT !.subset = s, !.fn = f]

\* the call with the signature's check_name and, for the plain calls, with a
\* check_name of the caller's
Labelled(op, s, f) ==
  {WithData(op, s, f)} \cup
  IF s \in {None, Col("a")} /\ f = "identity"
  THEN {[WithData(op, s, f) EXCEPT !.check_name = "X"]} ELSE {}

SetFormatWith(K) ==
  \E k \in K :
    LET a == [Call("set_format") EXCEPT !.kwargs = k] IN Do(a, SetFormat(obj, a, cfg), timer)

set_format == SetFormatWith(KwargsOfLen(0) \cup KwargsOfLen(1))

reset_format ==
  LET a == Call("reset_format") IN Do(a, ResetFormat(obj, a, cfg), timer)

AssertDataWith(C, S, X) ==
  \E cond \in C, s \in S, x \in X, r \in BOOLEAN, v \in BOOLEAN :
    LET a == [Call("assert_data") EXCEPT !.condition = cond, !.subset = s,
                !.exception_class = x, !.raise_exception = r, !.verbose = v]
    IN  Do(a, AssertData(obj, a, cfg), timer)

assert_data == AssertDataWith(SomeConditions, SomeSubsets, {"DataError"})

describe ==
  \E s \in SomeSubsets, f \in SomeTransforms :
    \E a \in Labelled("describe", s, f) : Do(a, Describe(obj, a, cfg), timer)

columns ==
  \E s \in SomeSubsets, f \in SomeTransforms :
    \E a \in Labelled("columns", s, f) : Do(a, Columns(obj, a, cfg), timer)

dtypes ==
  \E s \in SomeSubsets, f \in SomeTransforms :
    \E a \in Labelled("dtypes", s, f) : Do(a, Dtypes(obj, a, cfg), timer)

evaluate ==
  \E s \in SomeSubsets, f \in SomeTransforms :
    \E a \in Labelled("evaluate", s, f) : Do(a, Evaluate(obj, a, cfg), timer)

head ==
  \E s \in SomeSubsets, f \in SomeTransforms, n \in {1, 5} :
    \E b \in Labelled("head", s, f) :
      LET a == [b EXCEPT !.n = n] IN Do(a, HeadOp(obj, a, cfg), timer)

hist ==
  \E s \in SomeSubsets \cup {Cols(<<>>)}, f \in SomeTransforms, name \in {"", "Ages"} :
    LET a == [WithData("hist", s, f) EXCEPT !.check_name = name]
    IN  Do(a, Hist(obj, a, cfg), timer)

info ==
  \E s \in SomeSubsets, f \in SomeTransforms :
    \E a \in Labelled("info", s, f) : Do(a, Info(obj, a, cfg), timer)

memory_usage ==
  \E s \in SomeSubsets, f \in SomeTransforms :
    \E a \in Labelled("memory_usage", s, f) : Do(a, MemoryUsage(obj, a, cfg), timer)

ncols ==
  \E s \in SomeSubsets, f \in SomeTransforms :
    \E a \in Labelled("ncols", s, f) : Do(a, NCols(obj, a, cfg), timer)

ndups ==
  \E s \in SomeSubsets, f \in SomeTransforms :
    \E a \in Labelled("ndups", s, f) : Do(a, NDups(obj, a, cfg), timer)

NNullsWith(S, F) ==
  \E s \in S, f \in F, b \in BOOLEAN, name \in {"", "Nulls"} :
    LET a == [WithData("nnulls", s, f) EXCEPT !.by_column = b, !.check_name = name]
    IN  Do(a, NNulls(obj, a, cfg), timer)

nnulls == NNullsWith(SomeSubsets, SomeTransforms)

nrows ==
  \E s \in SomeSubsets, f \in SomeTransforms :
    \E a \in Labelled("nrows", s, f) : Do(a, NRows(obj, a, cfg), timer)

nunique ==
  \E s \in SomeSubsets \ {None}, f \in SomeTransforms :
    \E a \in Labelled("nunique", s, f) : Do(a, NUnique(obj, a, cfg), timer)

plot ==
  \E s \in SomeSubsets, f \in SomeTransforms :
    \E a \in Labelled("plot", s, f) : Do(a, Plot(obj, a, cfg), timer)

print ==
  \/ \E s \in SomeSubsets, f \in SomeTransforms :
       \E a \in Labelled("print", s, f) : Do(a, PrintOp(obj, a, cfg), timer)
  \/ LET a == [Call("print") EXCEPT !.text = "checkpoint"]
     IN  Do(a, PrintOp(obj, a, cfg), timer)

shape ==
  \E s \in SomeSubsets, f \in SomeTransforms :
    \E a \in Labelled("shape", s, f) : Do(a, Shape(obj, a, cfg), timer)

start_timer ==
  \E v \in BOOLEAN :
    LET a == [Call("start_timer") EXCEPT !.verbose = v]
    IN  Do(a, StartTimer(obj, a, cfg), "running")

tail ==
  \E s \in SomeSubsets, f \in SomeTransforms, n \in {1, 5} :
    \E b \in Labelled("tail", s, f) :
      LET a == [b EXCEPT !.n = n] IN Do(a, TailOp(obj, a, cfg), timer)

print_time_elapsed ==
  \E fails \in BOOLEAN, name \in {DefaultCheckName("print_time_elapsed"), "X"} :
    LET a == [Call("print_time_elapsed") EXCEPT !.check_name = name]
    IN  Do(a, PrintTimeElapsed(obj, a, cfg, timer, fails), timer)

unique ==
  \E s \in SomeSubsets \ {None}, f \in SomeTransforms :
    \E a \in Labelled("unique", s, f) : Do(a, Unique(obj, a, cfg), timer)

value_counts ==
  \E s \in SomeSubsets \ {None}, f \in SomeTransforms, n \in {10, 1, 0} :
    \E b \in Labelled("value_counts", s, f) :
      LET a == [b EXCEPT !.max_rows = n] IN Do(a, ValueCounts(obj, a, cfg), timer)

WriteWith(P, S, F) ==
  \E p \in P, s \in S, f \in F, v \in BOOLEAN :
    LET a == [WithData("write", s, f) EXCEPT !.path = p, !.verbose = v]
    IN  Do(a, Write(obj, a, cfg), timer)

write == WriteWith(SomePaths, SomeSubsets, SomeTransforms)

Next ==
  \/ set_format \/ reset_format \/ assert_data \/ describe \/ columns \/ dtypes
  \/ evaluate \/ head \/ hist \/ info \/ memory_usage \/ ncols \/ ndups \/ nnulls
  \/ nrows \/ nunique \/ plot \/ print \/ shape \/ start_timer \/ tail
  \/ print_time_elapsed \/ unique \/ value_counts \/ write

Spec == Init /\ [][Next]_vars

(***************************************************************************)
(* Specifications of single methods over their whole argument space.  The  *)
(* accessor may be created under any option registry set_format can leave. *)
(***************************************************************************)
InitAny ==
  /\ obj \in Datasets
  /\ cfg \in Configs
  /\ timer = "unset"
  /\ last = Call("__init__")
  /\ ret = NoRet
  /\ err = NoErr
  /\ out = <<>>
  /\ seen = NoData
  /\ enc = <<>>

assert_data_any == AssertDataWith(Conditions, Subsets, ExceptionClasses)

SpecAssert == InitAny /\ [][assert_data_any]_vars

set_format_any == SetFormatWith(Kwargs)

\* the option registry does not depend on the dataset: one dataset is enough
InitFormat ==
  /\ obj = ExampleTable
  /\ cfg = InitializeFormatOptions
  /\ timer = "unset"
  /\ last = Call("__init__")
  /\ ret = NoRet
  /\ err = NoErr
  /\ out = <<>>
  /\ seen = NoData
  /\ enc = <<>>

SpecFormat == InitFormat /\ [][set_format_any \/ reset_format]_vars

write_any == WriteWith(Paths, Subsets, Transforms)

SpecWrite == InitAny /\ [][write_any]_vars

InitTables ==
  /\ obj \in Tables
  /\ cfg = InitializeFormatOptions
  /\ timer = "unset"
  /\ last = Call("__init__")
  /\ ret = NoRet
  /\ err = NoErr
  /\ out = <<>>
  /\ seen = NoData
  /\ enc = <<>>

nnulls_any == NNullsWith({None, Col("a"), Cols(<<"b", "a">>)}, Transforms)

SpecNulls == InitTables /\ [][nnulls_any]_vars

(***************************************************************************)
(* Properties.                                                             *)
(***************************************************************************)
Called(op) == last.op = op

\* C1: every accessor operation that completes without raising returns the very
\* object the accessor was created on, never a copy or a derived value.
C1_ReturnsSameObject ==
  (~Called("__init__") /\ ~Raised(err)) => (ret = ObjId /\ obj.id = ObjId)

\* assert_data returned the dataset although its condition saw a narrowed object
C1_Witness ==
  /\ Called("assert_data")
  /\ ~Raised(err)
  /\ seen.kind = "series"
  /\ seen.id # ObjId
  /\ ret = ObjId

\* C2: no accessor operation, failing or not, changes the working dataset's
\* contents or schema.
C2_DatasetUnchanged == [][obj' = obj]_vars

\* write on transformed, narrowed data failed on the path's suffix
C2_Witness ==
  /\ Called("write")
  /\ err.site = "bad_suffix"
  /\ last.fn = "dropna"
  /\ Truthy(last.subset)
  /\ \E i \in 1..Len(obj.rows) : HasNa(obj.rows[i])

\* the condition of the last assert_data call was evaluated, on seen
Evaluated == Called("assert_data") /\ seen.kind # "none"

\* what the evaluated condition gave on the data it saw
ResultOnSeen ==
  IF last.condition.type = "callable" THEN CallCondition(last.condition.pred, seen)
  ELSE EvalCondition(last.condition.text, seen)

PassLines == {i \in 1..Len(out) : out[i].label.deco = "success"}

\* C3: when the condition of assert_data evaluates falsy, raise_exception true
\* makes the call fail with exception_class (DataError by default) carrying the
\* fail message followed by the condition's text, returning nothing;
\* raise_exception false makes it print the decorated fail message with the
\* condition's text, raise nothing and return the dataset.
C3_FalsyCondition ==
  /\ Call("assert_data").exception_class = "DataError"
  /\ (Evaluated /\ ~ResultOnSeen) =>
       IF last.raise_exception
       THEN /\ err.site = "assert_fail"
            /\ err.kind = last.exception_class
            /\ err.msg = <<last.fail_message, last.condition.text>>
            /\ ret = NoRet
            /\ out = <<>>
       ELSE /\ ~Raised(err)
            /\ Len(out) >= 1
            /\ out[1] = Line(FormatFailMessage(last.fail_message, cfg), last.condition.text)
            /\ ret = ObjId

\* a failed callable condition raised the caller's own error class
C3_Witness ==
  /\ Evaluated
  /\ ~ResultOnSeen
  /\ last.condition.type = "callable"
  /\ last.raise_exception
  /\ last.exception_class = "ValueError"
  /\ err.kind = "ValueError"

\* C4: assert_data prints the pass message only when the condition's result is
\* truthy and verbose is set.
C4_PassOnlyWhenTruthy ==
  (Called("assert_data") /\ PassLines # {}) => (Evaluated /\ ResultOnSeen /\ last.verbose)

\* the export format the last characters of a path name
C5_Suffix(path) ==
  LET n == Len(path)
      ends(k, p) == n >= k /\ [i \in 1..k |-> path[n - k + i]] = p
  IN  IF ends(4, XlsSuffix) \/ ends(5, XlsxSuffix) THEN "to_excel"
      ELSE IF ends(4, CsvSuffix) THEN "to_csv"
      ELSE IF ends(8, ParquetSuffix) THEN "to_parquet"
      ELSE "unsupported"

\* C5: write picks the encoder from the path's suffix alone: .xls and .xlsx the
\* spreadsheet encoder, .csv the delimited-text one, .parquet the columnar one,
\* each invoked once, alone, on the resolved data; any other suffix fails with
\* the unsupported-extension error, with no encoder invoked and nothing printed.
C5_EncoderBySuffix ==
  (Called("write") /\ ModifyData(obj, last.fn, last.subset).ok) =>
     IF C5_Suffix(last.path) = "unsupported"
     THEN /\ err.site = "bad_suffix"
          /\ err.kind = "AttributeError"
          /\ enc = <<>>
          /\ out = <<>>
          /\ ret = NoRet
     ELSE /\ ~Raised(err)
          /\ enc = <<Encoded(C5_Suffix(last.path),
                             ModifyData(obj, last.fn, last.subset).value, last.path)>>
          /\ ret = ObjId

\* the data nnulls counts on
C6_Data == ModifyData(obj, last.fn, last.subset).value

C6_Reported ==
  IF last.check_name = "" /\ ~(C6_Data.kind = "frame" /\ last.by_column)
  THEN out[2].body[1] ELSE out[2].body

C6_NullsIn(d, j) == Cardinality({i \in 1..Len(d.rows) : d.rows[i][j] = Null})

C6_RowsWithNull(d) ==
  Cardinality({i \in 1..Len(d.rows) : \E j \in 1..Len(d.cols) : d.rows[i][j] = Null})

C6_Example == Frame(ObjId, <<"a", "b">>, << <<One, Null>>, <<Two, Two>> >>)

\* the counts are the per-column and the per-row null counts of the resolved table
C6_Counts ==
  /\ last.by_column =>
       /\ Len(C6_Reported) = Len(C6_Data.cols)
       /\ \A j \in 1..Len(C6_Data.cols) :
            C6_Reported[j] = <<C6_Data.cols[j], C6_NullsIn(C6_Data, j)>>
  /\ ~last.by_column => C6_Reported = C6_RowsWithNull(C6_Data)

C6_OnExample == obj = C6_Example /\ last.subset = None /\ last.fn = "identity"

\* C6 as stated: the counts, and on the example table {a:1, b:0} by column and 1
\* by row.
C6_NullCountsAsStated ==
  (Called("nnulls") /\ ~Raised(err) /\ C6_Data.kind = "frame") =>
     /\ C6_Counts
     /\ C6_OnExample =>
          IF last.by_column THEN C6_Reported = << <<"a", 1>>, <<"b", 0>> >>
          ELSE C6_Reported = 1

\* C6, amended: nnulls reports, with by_column true, for each column the number
\* of rows null in that column and, with by_column false on a table, the number
\* of rows with a null in some column; for columns [a,b] and rows
\* [(1,None),(2,2)], whose only null is in column b, these are {a:0, b:1} and 1.
C6_NullCounts ==
  (Called("nnulls") /\ ~Raised(err) /\ C6_Data.kind = "frame") =>
     /\ C6_Counts
     /\ C6_OnExample =>
          IF last.by_column THEN C6_Reported = << <<"a", 0>>, <<"b", 1>> >>
          ELSE C6_Reported = 1

\* the example table, counted by column
C6_Witness ==
  /\ Called("nnulls")
  /\ C6_OnExample
  /\ last.by_column
  /\ last.check_name = ""
  /\ out[2].body = << <<"a", 0>>, <<"b", 1>> >>

\* the fully qualified name of an option: a name that begins with vet. is used as
\* it is, any other name gets the prefix
C7_Qualified(n) ==
  IF Len(n) >= 4 /\ <<n[1], n[2], n[3], n[4]>> = <<"v", "e", "t", ".">> THEN n
  ELSE <<"v", "e", "t", ".">> \o n

\* the positions of the keyword arguments k that name no option of registry c
C7_Unknown(k, c) == {i \in 1..Len(k) : C7_Qualified(k[i].arg) \notin DOMAIN c}

C7_First(S) == CHOOSE i \in S : \A j \in S : i <= j

\* the last of the positions 1..n of k that names option q
C7_LastNaming(k, n, q) ==
  CHOOSE i \in 1..n : /\ C7_Qualified(k[i].arg) = q
                      /\ \A j \in (i + 1)..n : C7_Qualified(k[j].arg) # q

C7_NamedIn(k, n) == {C7_Qualified(k[i].arg) : i \in 1..n}

\* registry c2 is registry c1 after the first n arguments of k were set in order
C7_SetInOrder(c1, c2, k, n) ==
  /\ DOMAIN c2 = DOMAIN c1
  /\ \A q \in DOMAIN c1 :
       c2[q] = IF q \in C7_NamedIn(k, n) THEN k[C7_LastNaming(k, n, q)].value ELSE c1[q]

\* C7: set_format with a name that, once qualified with vet. (a prefixed name is
\* used as it is), is no recognized option fails with the unknown-option error,
\* which names the valid options, and does not set that option; with recognized
\* names only it sets each to the given value and returns the dataset.
C7_SetFormat ==
  [][ last'.op = "set_format" =>
        LET k   == last'.kwargs
            bad == C7_Unknown(k, cfg)
        IN  IF bad = {}
            THEN /\ err'.site = "none"
                 /\ ret' = ObjId
                 /\ C7_SetInOrder(cfg, cfg', k, Len(k))
            ELSE /\ err'.site = "unknown_option"
                 /\ err'.kind = "AttributeError"
                 /\ err'.msg = <<C7_Qualified(k[C7_First(bad)].arg), DOMAIN cfg>>
                 /\ C7_Qualified(k[C7_First(bad)].arg) \notin DOMAIN cfg'
                 /\ ret' = NoRet ]_vars

\* a prefixed and a bare name were both set, and the dataset returned
C7_Witness ==
  /\ Called("set_format")
  /\ ~Raised(err)
  /\ ret = ObjId
  /\ Len(last.kwargs) = 2
  /\ last.kwargs[1].arg = Precision
  /\ last.kwargs[2].arg = Bare(UseEmojis)
  /\ cfg[Precision] = last.kwargs[1].value
  /\ cfg[UseEmojis] = last.kwargs[2].value

\* the last call was assert_data with a condition neither callable nor text
C8_BadCondition ==
  Called("assert_data") /\ last.condition.type \notin {"callable", "str"}

\* the type check refused the condition: nothing evaluated, nothing printed
C8_TypeError ==
  /\ err.site = "type_check"
  /\ err.kind = "TypeError"
  /\ seen = NoData
  /\ out = <<>>
  /\ ret = NoRet

\* C8 as stated: a condition neither callable nor text fails with TypeError for
\* every value of subset, exception_class, raise_exception and verbose.
C8_AsStated == C8_BadCondition => C8_TypeError

\* C8, amended: assert_data with a condition neither callable nor text fails with
\* TypeError, evaluating and printing nothing and never raising exception_class
\* from the assertion, for every exception_class, raise_exception and verbose and
\* every subset that is absent, falsy or names columns of the dataset; with a
\* subset naming a missing column the narrowing fails first with the host's
\* column-not-found error, again with nothing evaluated or printed.
C8_TypeMismatch ==
  C8_BadCondition =>
    IF ~Truthy(last.subset) \/ Named(last.subset) \subseteq Range(obj.cols)
    THEN C8_TypeError
    ELSE /\ err.site = "subset_lookup"
         /\ err.kind = "KeyError"
         /\ seen = NoData
         /\ out = <<>>
         /\ ret = NoRet

\* a number given as condition, with a narrowing subset, error suppression and
\* verbose output asked for, was refused by the type check
C8_Witness ==
  /\ C8_BadCondition
  /\ last.condition.type = "int"
  /\ last.subset = Col("a")
  /\ ~last.raise_exception
  /\ last.verbose
  /\ last.exception_class = "ValueError"
  /\ C8_TypeError

\* two tables with the same schema and contents
C9_SameData(d, e) == d.kind = e.kind /\ d.cols = e.cols /\ d.rows = e.rows

\* C9: assert_data evaluates its condition on the dataset narrowed to the subset
\* whenever a subset selector is given (also an empty list, also a column whose
\* name is falsy), and on the whole dataset only when the selector is absent.
C9_NarrowedWheneverGiven ==
  (Evaluated /\ Named(last.subset) \subseteq Range(obj.cols)) =>
     IF last.subset.tag = "none" THEN seen = obj
     ELSE C9_SameData(seen, GetItem(obj, last.subset))

\* the position of the first argument of k that names no option of registry c
C10_Bad(k, c) == C7_First(C7_Unknown(k, c))

\* every recognized option before the unrecognized one holds its new value, every
\* recognized option after it its previous value
C10_PrefixSet(c1, c2, k) ==
  /\ \A i \in 1..(C10_Bad(k, c1) - 1) : c2[C7_Qualified(k[i].arg)] = k[i].value
  /\ \A i \in (C10_Bad(k, c1) + 1)..Len(k) :
       C7_Qualified(k[i].arg) \in DOMAIN c1 =>
         c2[C7_Qualified(k[i].arg)] = c1[C7_Qualified(k[i].arg)]

C10_FailedSetFormat == last'.op = "set_format" /\ err'.site = "unknown_option"

\* C10 as stated: after a failed set_format the recognized options before the
\* unrecognized name hold their new values, those after it their previous
\* values, and the configuration equals the one before the call only when the
\* unrecognized name comes first.
C10_AsStated ==
  [][ C10_FailedSetFormat =>
        /\ C10_PrefixSet(cfg, cfg', last'.kwargs)
        /\ (cfg' = cfg) <=> (C10_Bad(last'.kwargs, cfg) = 1) ]_vars

\* C10, amended: set_format sets its options one at a time in argument order and
\* is not atomic: when it fails on an unrecognized name, the options named before
\* it (bare or prefixed) hold the value of the last argument before it that names
\* them and every other option holds its previous value; the configuration equals
\* the one before the call exactly when, for every option named before the
\* unrecognized name, the last argument before it that names the option gave
\* the value the option had before the call (an earlier argument naming the same
\* option may have given another value), so always when the unrecognized name
\* comes first.
C10_NotAtomic ==
  [][ C10_FailedSetFormat =>
        LET k == last'.kwargs
            b == C10_Bad(k, cfg)
        IN  /\ C7_SetInOrder(cfg, cfg', k, b - 1)
            /\ (cfg' = cfg) <=>
                 (\A q \in C7_NamedIn(k, b - 1) : k[C7_LastNaming(k, b - 1, q)].value = cfg[q])
            /\ (b = 1) => (cfg' = cfg) ]_vars

\* a failed set_format left the option before the unrecognized name changed and
\* the option after it untouched
C10_Witness ==
  /\ Called("set_format")
  /\ err.site = "unknown_option"
  /\ Len(last.kwargs) = 3
  /\ last.kwargs[1] = [arg |-> Bare(Precision), value |-> 0]
  /\ last.kwargs[3] = [arg |-> Bare(UseEmojis), value |-> 0]
  /\ cfg[Precision] = 0
  /\ cfg[UseEmojis] = 1

====
